---- MODULE Spec2Model ----
(***************************************************************************)
(* A model of fractal-explorer-rs (src/src/main.rs): the progressive       *)
(* renderer `step`, the pure functions `screen_to_world` and `mandelbrot`, *)
(* and the frame loop of `main`.                                           *)
(*                                                                         *)
(* f64 values are modelled as exact rationals [n, d] in lowest terms.  The  *)
(* views that are enumerated have a dyadic centre and a real_domain that   *)
(* is a whole number of world units per pixel column (a multiple of the    *)
(* width), so every operation of screen_to_world and of the short orbits   *)
(* of mandelbrot has a dyadic result of a few bits and the f64 evaluation  *)
(* of the program is exact on them.  The pan and zoom factors 0.02 and     *)
(* 0.95 are not f64 values; the model applies them as decimals, and views  *)
(* panned or zoomed are explored on the 1 x 1 target only, where every     *)
(* sample escapes at once and no grey level depends on the last bits.      *)
(***************************************************************************)
EXTENDS Integers, Sequences, FiniteSets, TLC

VARIABLES
    render_params,      \* RenderParams used by the render in progress
    render_progress,    \* RenderProgress: done, index_x, index_y, block_size
    buffer,             \* the target texture: [w, h, px], px[<<x, y>>] a grey level
    last_rect,          \* the fill_rect command of the latest step call, or NoRect
    calls,              \* step calls of the current drain made while not yet done
    idle,               \* step calls made once done was already true
    painted_sizes,      \* block sizes at which this drain has painted pixels of the target
    new_render_params,  \* the candidate RenderParams of the frame
    pc,                 \* position of the frame loop
    elapsed,            \* start_time.elapsed(), in nanoseconds
    time_to_think,      \* the local of the render loop
    changes,            \* inputs that changed the candidate so far
    exported,           \* dimensions handed to the exporter, or NoExport
    eval                \* one evaluation of a pure function: input and result

vars == <<render_params, render_progress, buffer, last_rect, calls, idle,
          painted_sizes, new_render_params, pc, elapsed,
          time_to_think, changes, exported, eval>>

drain_vars == <<render_params, render_progress, buffer, last_rect, calls, idle,
                painted_sizes>>
frame_vars == <<new_render_params, pc, elapsed, time_to_think, changes, exported>>

-----------------------------------------------------------------------------
(* Bounds of the model *)

MaxW == 3
MaxH == 3
MaxIter == 2
MaxIdle == 2
MaxCoord == 2
MaxEvalIter == 5
MaxFrameDim == 2
MaxChanges == 1
MaxMapDim == 4
MaxBrightIter == 12

(* Program constants *)

InitialBlockSize == 128
InitialMaxIter == 64
MaxIterClamp == 1048576
Budget == 16000000
Second == 1000000000
\* the largest u32 whose double is still a u32: (2^32 - 1) / 2
HalfU32Max == 2147483647
\* the largest n whose product 255 * n is still a u32: (2^32 - 1) / 255
MaxU32Over255 == 16843009

-----------------------------------------------------------------------------
(* f64 arithmetic, exact on the values the model enumerates *)

Abs(i) == IF i < 0 THEN -i ELSE i

RECURSIVE GCD(_, _)
GCD(a, b) == IF b = 0 THEN a ELSE GCD(b, a % b)

\* the rational n/d (d # 0) in lowest terms with a positive denominator
Rat(n, d) ==
    LET g == GCD(Abs(n), Abs(d))
        s == IF d < 0 THEN -1 ELSE 1
    IN  [n |-> s * (n \div g), d |-> Abs(d) \div g]

FromInt(i) == [n |-> i, d |-> 1]

LCM(a, b) == (a \div GCD(a, b)) * b

RAdd(a, b) ==
    LET l == LCM(a.d, b.d)
    IN  Rat(a.n * (l \div a.d) + b.n * (l \div b.d), l)
RSub(a, b) ==
    LET l == LCM(a.d, b.d)
    IN  Rat(a.n * (l \div a.d) - b.n * (l \div b.d), l)
RMul(a, b) == Rat(a.n * b.n, a.d * b.d)
RDiv(a, b) == Rat(a.n * b.d, a.d * b.n)
RLt(a, b) == a.n * b.d < b.n * a.d

(* num_complex::Complex64 *)

Complex(re, im) == [re |-> re, im |-> im]
norm_sqr(z) == RAdd(RMul(z.re, z.re), RMul(z.im, z.im))
mul(a, b) == Complex(RSub(RMul(a.re, b.re), RMul(a.im, b.im)),
                     RAdd(RMul(a.re, b.im), RMul(a.im, b.re)))
add(a, b) == Complex(RAdd(a.re, b.re), RAdd(a.im, b.im))

-----------------------------------------------------------------------------
(* fn screen_to_world *)

\* faulty variant: the vertical span is not corrected by the aspect ratio
screen_to_world_NoAspect(x, y, p) ==
    LET w == FromInt(p.width)
        h == FromInt(p.height)
        fx == FromInt(x)
        fy == FromInt(y)
        two == FromInt(2)
        world_re == RAdd(p.center.re,
                         RDiv(RMul(p.real_domain, RSub(fx, RDiv(w, two))), w))
        world_im == RAdd(p.center.im,
                         RDiv(RMul(p.real_domain, RSub(fy, RDiv(h, two))), h))
    IN  Complex(world_re, world_im)

screen_to_world(x, y, p) ==
    LET w == FromInt(p.width)
        h == FromInt(p.height)
        fx == FromInt(x)
        fy == FromInt(y)
        two == FromInt(2)
        complex_domain == RDiv(RMul(p.real_domain, h), w)
        world_re == RAdd(p.center.re,
                         RDiv(RMul(p.real_domain, RSub(fx, RDiv(w, two))), w))
        world_im == RAdd(p.center.im,
                         RDiv(RMul(complex_domain, RSub(fy, RDiv(h, two))), h))
    IN  Complex(world_re, world_im)

\* z.norm_sqr() < 4.0.  A part of magnitude 2 or more already puts the sum
\* at 4 or more, and the squares are formed only when both parts are smaller.
NormSqrBelow4(z) ==
    /\ Abs(z.re.n) < 2 * z.re.d
    /\ Abs(z.im.n) < 2 * z.im.d
    /\ RLt(norm_sqr(z), FromInt(4))

(* fn mandelbrot: the while loop, one iteration per unfolding.  The two    *)
(* operands of && have no effect, so the count is tested first.            *)

\* faulty variant: the escape test written as <= 4.0
RECURSIVE mandelbrot_loop_Le(_, _, _, _)
mandelbrot_loop_Le(z, z_0, n, max_iter) ==
    IF n < max_iter /\ ~RLt(FromInt(4), norm_sqr(z))
    THEN mandelbrot_loop_Le(add(mul(z, z), z_0), z_0, n + 1, max_iter)
    ELSE n

RECURSIVE mandelbrot_loop(_, _, _, _)
mandelbrot_loop(z, z_0, n, max_iter) ==
    IF n < max_iter /\ NormSqrBelow4(z)
    THEN mandelbrot_loop(add(mul(z, z), z_0), z_0, n + 1, max_iter)
    ELSE n

mandelbrot(z_0, max_iter) == mandelbrot_loop(z_0, z_0, 0, max_iter)

\* (255 * n / max_iter) as u8
\* faulty variant: the scale is 256 instead of 255
brightness_256(n, max_iter) == ((256 * n) \div max_iter) % 256
brightness(n, max_iter) == ((255 * n) \div max_iter) % 256

-----------------------------------------------------------------------------
(* Canvas::fill_rect on the target texture: the rectangle clipped to it *)

NoRect == [none |-> TRUE]

InRect(q, r) ==
    /\ r.x <= q[1] /\ q[1] < r.x + r.w
    /\ r.y <= q[2] /\ q[2] < r.y + r.h

fill_rect(buf, r) ==
    [buf EXCEPT !.px = [q \in DOMAIN buf.px |->
                           IF InRect(q, r) THEN r.color ELSE buf.px[q]]]

Pixels(w, h) == (0 .. w - 1) \X (0 .. h - 1)

\* the fill_rect command r covers at least one pixel of the texture
OnTarget(r, buf) == r # NoRect /\ \E q \in DOMAIN buf.px : InRect(q, r)

\* a texture of w x h pixels, every pixel holding the grey level v
Texture(w, h, v) == [w |-> w, h |-> h, px |-> [q \in Pixels(w, h) |-> v]]

-----------------------------------------------------------------------------
(* fn step *)

InitialProgress ==
    [done |-> FALSE, index_x |-> 0, index_y |-> 0, block_size |-> InitialBlockSize]

\* faulty variant: the row advances but index_x is not set back
RowWrap_NoReset(rp, screen_tl_x, width) ==
    IF screen_tl_x > width
    THEN [rp EXCEPT !.index_y = rp.index_y + 1]
    ELSE rp

\* faulty variant: the row test written as >=
RowWrap_Ge(rp, screen_tl_x, width) ==
    IF screen_tl_x >= width
    THEN [rp EXCEPT !.index_x = 0, !.index_y = rp.index_y + 1]
    ELSE rp

\* lines 45-48
RowWrap(rp, screen_tl_x, width) ==
    IF screen_tl_x > width
    THEN [rp EXCEPT !.index_x = 0, !.index_y = rp.index_y + 1]
    ELSE rp

\* lines 50-53
ResolutionHalve(rp, screen_tl_y, height) ==
    IF screen_tl_y > height
    THEN [rp EXCEPT !.index_y = 0, !.block_size = rp.block_size \div 2]
    ELSE rp

\* faulty variant: the corner is taken from the indices as updated by the call
Block_Recomputed(rp, screen_tl_x, screen_tl_y, p) ==
    LET tl_x == rp.index_x * rp.block_size
        tl_y == rp.index_y * rp.block_size
        z_0 == screen_to_world(tl_x + (rp.block_size \div 2),
                               tl_y + (rp.block_size \div 2), p)
        n == mandelbrot(z_0, p.max_iter)
    IN  [x |-> tl_x, y |-> tl_y, w |-> rp.block_size, h |-> rp.block_size,
         color |-> brightness(n, p.max_iter)]

\* lines 60-71: the rectangle painted by the call
Block(rp, screen_tl_x, screen_tl_y, p) ==
    LET screen_cx == screen_tl_x + (rp.block_size \div 2)
        screen_cy == screen_tl_y + (rp.block_size \div 2)
        z_0 == screen_to_world(screen_cx, screen_cy, p)
        n == mandelbrot(z_0, p.max_iter)
    IN  [x |-> screen_tl_x, y |-> screen_tl_y,
         w |-> rp.block_size, h |-> rp.block_size,
         color |-> brightness(n, p.max_iter)]

\* faulty variant: done is set but the call does not return early
step_NoReturn(buf, p, rp) ==
    LET screen_tl_x == rp.index_x * rp.block_size
        screen_tl_y == rp.index_y * rp.block_size
        rp1 == RowWrap(rp, screen_tl_x, p.width)
        rp2 == ResolutionHalve(rp1, screen_tl_y, p.height)
        rp3 == IF rp2.block_size < 1 THEN [rp2 EXCEPT !.done = TRUE] ELSE rp2
        r == [x |-> screen_tl_x, y |-> screen_tl_y,
              w |-> rp3.block_size, h |-> rp3.block_size, color |-> 0]
    IN  [progress |-> [rp3 EXCEPT !.index_x = rp3.index_x + 1],
         buffer |-> fill_rect(buf, r),
         rect |-> IF rp3.block_size < 1 THEN NoRect ELSE r]

\* the whole call: the progress, the texture and the rectangle it leaves
step(buf, p, rp) ==
    LET screen_tl_x == rp.index_x * rp.block_size
        screen_tl_y == rp.index_y * rp.block_size
        rp1 == RowWrap(rp, screen_tl_x, p.width)
        rp2 == ResolutionHalve(rp1, screen_tl_y, p.height)
    IN  IF rp2.block_size < 1
        THEN [progress |-> [rp2 EXCEPT !.done = TRUE], buffer |-> buf, rect |-> NoRect]
        ELSE LET r == Block(rp2, screen_tl_x, screen_tl_y, p)
             IN  [progress |-> [rp2 EXCEPT !.index_x = rp2.index_x + 1],
                  buffer |-> fill_rect(buf, r),
                  rect |-> r]

-----------------------------------------------------------------------------
(* The render drained by repeated step calls, for fixed RenderParams *)

NoExport == [none |-> TRUE]
NoEval == [none |-> TRUE]

\* grey levels a texture may hold before a drain starts
Stale == {0, 255}

\* render target sizes: the small ones, and one taller than the first block
DrainDims ==
    ((1 .. MaxW) \X (1 .. MaxH)) \cup {<<1, InitialBlockSize + 1>>}

DrainCenters == {Complex(FromInt(0), FromInt(0)), Complex(FromInt(-1), FromInt(0))}
\* world units per pixel column: real_domain is this many times the width
DrainScales == {1, 2}

DrainParams ==
    {[center |-> c, width |-> wh[1], height |-> wh[2],
      real_domain |-> FromInt(k * wh[1]), max_iter |-> mi] :
        c \in DrainCenters, wh \in DrainDims, k \in DrainScales,
        mi \in 1 .. MaxIter}

Init ==
    /\ render_params \in DrainParams
    /\ render_progress = InitialProgress
    /\ \E v \in Stale :
           buffer = Texture(render_params.width, render_params.height, v)
    /\ last_rect = NoRect
    /\ calls = 0
    /\ idle = 0
    /\ painted_sizes = {}
    /\ new_render_params = render_params
    /\ pc = "drain"
    /\ elapsed = 0
    /\ time_to_think = 0
    /\ changes = 0
    /\ exported = NoExport
    /\ eval = NoEval

\* one call of step(canvas_texture, &render_params, &mut render_progress)
StepCall ==
    /\ pc = "drain"
    /\ render_progress.done => idle < MaxIdle
    /\ LET s == step(buffer, render_params, render_progress)
       IN  /\ render_progress' = s.progress
           /\ buffer' = s.buffer
           /\ last_rect' = s.rect
           /\ painted_sizes' = IF OnTarget(s.rect, buffer)
                               THEN painted_sizes \cup {s.rect.w}
                               ELSE painted_sizes
    /\ calls' = IF render_progress.done THEN calls ELSE calls + 1
    /\ idle' = IF render_progress.done THEN idle + 1 ELSE idle
    /\ UNCHANGED <<render_params, frame_vars, eval>>

Next == StepCall

Spec == Init /\ [][Next]_vars

-----------------------------------------------------------------------------
(* fn main: the frame loop *)

\* Duration::subsec_nanos of start_time.elapsed()
subsec_nanos(e) == e % Second

\* lines 224, 227 and 235
TimeLeft(e) == Budget - subsec_nanos(e)

\* faulty variant: the change is detected on the dimensions alone
ParamsDiffer_DimsOnly(a, b) == a.width # b.width \/ a.height # b.height

\* faulty variant: the comparison reports a difference every frame
ParamsDiffer_Always(a, b) == TRUE

\* faulty variant: width and height are left out of the comparison
ParamsDiffer_IgnoreDims(a, b) ==
    \/ a.center # b.center
    \/ a.real_domain # b.real_domain
    \/ a.max_iter # b.max_iter

\* line 212: the derived PartialEq of RenderParams
ParamsDiffer(a, b) == a # b

\* lines 172-178
IterDown(p) ==
    LET m == p.max_iter \div 2
    IN  [p EXCEPT !.max_iter = IF m > 1 THEN m ELSE 1]
\* faulty variant: the doubling is not capped
IterUp_NoClamp(p) == [p EXCEPT !.max_iter = p.max_iter * 2]
IterUp(p) ==
    LET m == p.max_iter * 2
    IN  [p EXCEPT !.max_iter = IF m < MaxIterClamp THEN m ELSE MaxIterClamp]

\* lines 193-210, for the set of keys held down
PanStep(p) == RMul(Rat(2, 100), p.real_domain)
ZoomFactor == Rat(95, 100)
MoveUp(p, keys) ==
    IF "up" \in keys THEN [p EXCEPT !.center.im = RSub(p.center.im, PanStep(p))] ELSE p
MoveDown(p, keys) ==
    IF "down" \in keys THEN [p EXCEPT !.center.im = RAdd(p.center.im, PanStep(p))] ELSE p
MoveLeft(p, keys) ==
    IF "left" \in keys THEN [p EXCEPT !.center.re = RSub(p.center.re, PanStep(p))] ELSE p
MoveRight(p, keys) ==
    IF "right" \in keys THEN [p EXCEPT !.center.re = RAdd(p.center.re, PanStep(p))] ELSE p
ZoomIn(p, keys) ==
    IF "zoom_in" \in keys THEN [p EXCEPT !.real_domain = RMul(p.real_domain, ZoomFactor)] ELSE p
ZoomOut(p, keys) ==
    IF "zoom_out" \in keys THEN [p EXCEPT !.real_domain = RDiv(p.real_domain, ZoomFactor)] ELSE p
ApplyPressed(p, keys) ==
    ZoomOut(ZoomIn(MoveRight(MoveLeft(MoveDown(MoveUp(p, keys), keys), keys), keys), keys), keys)

HeldKeys == {"up", "down", "left", "right", "zoom_in", "zoom_out"}
\* no key held, or one
PressedSets == {{}} \cup {{k} : k \in HeldKeys}

\* the sizes canvas.output_size() may report: the first MaxFrameDim powers
\* of two, which divide the initial real_domain with a dyadic quotient
FrameDims == {<<2 ^ k, 2 ^ k>> : k \in 0 .. MaxFrameDim - 1}

\* how long one step call, and the polling of one frame, may take
StepDurations == {Budget \div 2, Second}
PollDurations == {0, Budget}
MaxElapsed == Second + 2 * Budget

\* lines 128-134: centre 0 + 0i, real_domain 4.0, max_iter 64 and the size
\* of the window.  Besides the constructed max_iter the loop is explored from
\* the two ends of its range, which the halving and doubling keys reach; the
\* upper end on the 1 x 1 target only (see Tractable).
FrameParams ==
    {[center |-> Complex(FromInt(0), FromInt(0)), width |-> wh[1], height |-> wh[2],
      real_domain |-> FromInt(4), max_iter |-> mi] :
        wh \in FrameDims, mi \in {1, InitialMaxIter}}
    \cup {[center |-> Complex(FromInt(0), FromInt(0)), width |-> 1, height |-> 1,
           real_domain |-> FromInt(4), max_iter |-> MaxIterClamp]}

FrameInit ==
    /\ render_params \in FrameParams
    /\ render_progress = InitialProgress
    /\ \E v \in Stale :
           buffer = Texture(render_params.width, render_params.height, v)
    /\ last_rect = NoRect
    /\ calls = 0
    /\ idle = 0
    /\ painted_sizes = {}
    /\ new_render_params = render_params
    /\ pc = "start"
    /\ elapsed = 0
    /\ time_to_think = 0
    /\ changes = 0
    /\ exported = NoExport
    /\ eval = NoEval

stepping_vars == <<calls, idle, painted_sizes, eval>>

\* the longest orbit the model follows for a sample that does not escape
MaxOrbit == 4 * InitialMaxIter

\* The views the exploration is limited to: the 1 x 1 target, where every
\* sample escapes at once whatever the view, and the constructed view with
\* max_iter up to MaxOrbit, whose samples have whole coordinates.
Tractable(p) ==
    \/ p.width = 1 /\ p.height = 1
    \/ /\ p.center = Complex(FromInt(0), FromInt(0))
       /\ p.real_domain = FromInt(4)
       /\ p.max_iter <= MaxOrbit

\* the candidate p replaces new_render_params; an input that changes the
\* candidate is counted, and at most MaxChanges of them are explored, within
\* the views of Tractable
Candidate(p) ==
    /\ p # new_render_params => changes < MaxChanges
    /\ Tractable(p)
    /\ new_render_params' = p
    /\ changes' = IF p # new_render_params THEN changes + 1 ELSE changes

\* lines 157-158
FrameStart ==
    /\ pc = "start"
    /\ elapsed' = 0
    /\ new_render_params' = render_params
    /\ pc' = "poll"
    /\ UNCHANGED <<render_params, render_progress, buffer, last_rect,
                   time_to_think, changes, exported, stepping_vars>>

\* line 161
PollQuit ==
    /\ pc = "poll"
    /\ pc' = "exit"
    /\ UNCHANGED <<render_params, render_progress, buffer, last_rect,
                   new_render_params, elapsed, time_to_think, changes, exported,
                   stepping_vars>>

\* lines 162-169: the texture is created anew, its content unspecified
PollResized ==
    /\ pc = "poll"
    /\ \E wh \in FrameDims, v \in Stale :
           /\ Candidate([new_render_params EXCEPT !.width = wh[1], !.height = wh[2]])
           /\ buffer' = Texture(wh[1], wh[2], v)
    /\ UNCHANGED <<render_params, render_progress, last_rect, pc, elapsed,
                   time_to_think, exported, stepping_vars>>

\* lines 170-188
\* line 171: key.unwrap() panics on an event that carries no keycode
PollKeyDown ==
    /\ pc = "poll"
    /\ \E key \in {"Q", "E", "R", "other", "none"} :
           IF key = "none"
           THEN /\ pc' = "panic"
                /\ UNCHANGED <<new_render_params, changes, exported>>
           ELSE /\ Candidate(IF key = "Q" THEN IterDown(new_render_params)
                             ELSE IF key = "E" THEN IterUp(new_render_params)
                             ELSE new_render_params)
                /\ exported' = IF key = "R"
                               THEN [width |-> render_params.width,
                                     height |-> render_params.height,
                                     texture_w |-> buffer.w, texture_h |-> buffer.h]
                               ELSE exported
                /\ pc' = pc
    /\ UNCHANGED <<render_params, render_progress, buffer, last_rect, elapsed,
                   time_to_think, stepping_vars>>

\* lines 192-210: the event queue is empty, the held keys are applied
PollEnd ==
    /\ pc = "poll"
    /\ \E keys \in PressedSets : Candidate(ApplyPressed(new_render_params, keys))
    /\ \E d \in PollDurations : elapsed' = elapsed + d
    /\ pc' = "detect"
    /\ UNCHANGED <<render_params, render_progress, buffer, last_rect,
                   time_to_think, exported, stepping_vars>>

\* lines 212-220
DetectChange ==
    /\ pc = "detect"
    /\ IF ParamsDiffer(render_params, new_render_params)
       THEN /\ render_params' = new_render_params
            /\ render_progress' = InitialProgress
       ELSE UNCHANGED <<render_params, render_progress>>
    /\ pc' = "render"
    /\ UNCHANGED <<buffer, last_rect, new_render_params, elapsed, time_to_think,
                   changes, exported, stepping_vars>>

\* lines 222-224
RenderEnter ==
    /\ pc = "render"
    /\ IF ~render_progress.done
       THEN /\ time_to_think' = TimeLeft(elapsed)
            /\ pc' = "loop"
       ELSE /\ pc' = "sleep"
            /\ UNCHANGED time_to_think
    /\ UNCHANGED <<render_params, render_progress, buffer, last_rect,
                   new_render_params, elapsed, changes, exported, stepping_vars>>

\* lines 225-227: one turn of the while loop, the call taking d nanoseconds
LoopStep ==
    /\ pc = "loop"
    /\ time_to_think > 0
    /\ LET s == step(buffer, render_params, render_progress)
       IN  /\ render_progress' = s.progress
           /\ buffer' = s.buffer
           /\ last_rect' = s.rect
    /\ \E d \in StepDurations :
           /\ d <= MaxElapsed - elapsed
           /\ elapsed' = elapsed + d
           /\ time_to_think' = TimeLeft(elapsed + d)
    /\ UNCHANGED <<render_params, new_render_params, pc, changes, exported,
                   stepping_vars>>

\* lines 228-233: the loop ends and the texture is presented
Present ==
    /\ pc = "loop"
    /\ time_to_think <= 0
    /\ pc' = "start"
    /\ UNCHANGED <<render_params, render_progress, buffer, last_rect,
                   new_render_params, elapsed, time_to_think, changes, exported,
                   stepping_vars>>

\* lines 234-239
Sleep ==
    /\ pc = "sleep"
    /\ elapsed' = IF TimeLeft(elapsed) > 0 THEN elapsed + TimeLeft(elapsed) ELSE elapsed
    /\ pc' = "start"
    /\ UNCHANGED <<render_params, render_progress, buffer, last_rect,
                   new_render_params, time_to_think, changes, exported,
                   stepping_vars>>

FrameNext ==
    \/ FrameStart \/ PollQuit \/ PollResized \/ PollKeyDown \/ PollEnd
    \/ DetectChange \/ RenderEnter \/ LoopStep \/ Present \/ Sleep

SpecFrame == FrameInit /\ [][FrameNext]_vars

\* The frame loop is the sequential code of one thread: the statement it has
\* reached is eventually executed, and poll_iter ends once the queue of the
\* frame is drained.  The events themselves (quit, resize, keys) are up to
\* the user and carry no fairness.
FrameProgram ==
    FrameStart \/ PollEnd \/ DetectChange \/ RenderEnter \/ Present \/ Sleep

\* a turn of the while loop of lines 225-228 is pending
LoopTurnPending == pc = "loop" /\ time_to_think > 0

\* The pending turn of the while loop is eventually taken as well.  LoopStep
\* is the only step possible while a turn is pending, it is enabled then, and
\* the clock bounds how many of them follow one another, so weak fairness of
\* LoopStep is the same as not staying at a pending turn forever; it is
\* written in that form, on states.
FrameFairness ==
    /\ WF_vars(FrameProgram)
    /\ []<>~LoopTurnPending

SpecFrameLive == FrameInit /\ [][FrameNext]_vars /\ FrameFairness

-----------------------------------------------------------------------------
(* One evaluation of mandelbrot on an integer-valued point *)

EvalInit ==
    /\ render_params \in {p \in FrameParams : p.width = 1 /\ p.height = 1
                                               /\ p.max_iter = InitialMaxIter}
    /\ render_progress = InitialProgress
    /\ buffer = Texture(1, 1, 0)
    /\ last_rect = NoRect
    /\ calls = 0
    /\ idle = 0
    /\ painted_sizes = {}
    /\ new_render_params = render_params
    /\ pc = "eval"
    /\ elapsed = 0
    /\ time_to_think = 0
    /\ changes = 0
    /\ exported = NoExport
    /\ \E a \in -MaxCoord .. MaxCoord, b \in -MaxCoord .. MaxCoord,
          m \in 0 .. MaxEvalIter :
           eval = [z_0 |-> Complex(FromInt(a), FromInt(b)), max_iter |-> m,
                   returned |-> FALSE, n |-> 0]

EvalMandelbrot ==
    /\ pc = "eval"
    /\ ~eval.returned
    /\ eval' = [eval EXCEPT !.returned = TRUE,
                            !.n = mandelbrot(eval.z_0, eval.max_iter)]
    /\ UNCHANGED <<drain_vars, frame_vars>>

EvalNext == EvalMandelbrot

SpecEval == EvalInit /\ [][EvalNext]_vars

-----------------------------------------------------------------------------
(* One evaluation of screen_to_world on a pixel of the target *)

MapCenters == {Complex(FromInt(0), FromInt(0)), Complex(Rat(-3, 4), Rat(1, 8))}
\* world units per pixel column: real_domain is this many times the width
MapScales == {1, 3}

MapInit ==
    /\ render_params \in
           {[center |-> c, width |-> w, height |-> h,
             real_domain |-> FromInt(k * w), max_iter |-> InitialMaxIter] :
                c \in MapCenters, w \in 1 .. MaxMapDim, h \in 1 .. MaxMapDim,
                k \in MapScales}
    /\ render_progress = InitialProgress
    /\ buffer = Texture(1, 1, 0)
    /\ last_rect = NoRect
    /\ calls = 0
    /\ idle = 0
    /\ painted_sizes = {}
    /\ new_render_params = render_params
    /\ pc = "map"
    /\ elapsed = 0
    /\ time_to_think = 0
    /\ changes = 0
    /\ exported = NoExport
    /\ \E x \in 0 .. render_params.width, y \in 0 .. render_params.height :
           eval = [x |-> x, y |-> y, returned |-> FALSE,
                   world |-> Complex(FromInt(0), FromInt(0))]

EvalScreenToWorld ==
    /\ pc = "map"
    /\ ~eval.returned
    /\ eval' = [eval EXCEPT !.returned = TRUE,
                            !.world = screen_to_world(eval.x, eval.y, render_params)]
    /\ UNCHANGED <<drain_vars, frame_vars>>

MapNext == EvalScreenToWorld

SpecMap == MapInit /\ [][MapNext]_vars

-----------------------------------------------------------------------------
(* One evaluation of the brightness of line 67 *)

BrightIters == (1 .. MaxBrightIter) \cup {MaxIterClamp - 1, MaxIterClamp}
BrightCounts(m) ==
    IF m <= MaxBrightIter THEN 0 .. m
    ELSE {0, 1, m \div 255, m \div 255 + 1, m \div 2, m - 1, m}

BrightInit ==
    /\ render_params \in
           {[center |-> Complex(FromInt(0), FromInt(0)), width |-> 1, height |-> 1,
             real_domain |-> FromInt(4), max_iter |-> m] : m \in BrightIters}
    /\ render_progress = InitialProgress
    /\ buffer = Texture(1, 1, 0)
    /\ last_rect = NoRect
    /\ calls = 0
    /\ idle = 0
    /\ painted_sizes = {}
    /\ new_render_params = render_params
    /\ pc = "bright"
    /\ elapsed = 0
    /\ time_to_think = 0
    /\ changes = 0
    /\ exported = NoExport
    /\ \E n \in BrightCounts(render_params.max_iter) :
           eval = [n |-> n, returned |-> FALSE, brightness |-> 0]

EvalBrightness ==
    /\ pc = "bright"
    /\ ~eval.returned
    /\ eval' = [eval EXCEPT !.returned = TRUE,
                            !.brightness = brightness(eval.n, render_params.max_iter)]
    /\ UNCHANGED <<drain_vars, frame_vars>>

BrightNext == EvalBrightness

SpecBright == BrightInit /\ [][BrightNext]_vars

-----------------------------------------------------------------------------
(* Vocabulary of the claims about step *)

\* the transition is one call of step
IsStepCall == calls' = calls + 1 \/ idle' = idle + 1

\* the values of the call's locals screen_tl_x and screen_tl_y
TlX == render_progress.index_x * render_progress.block_size
TlY == render_progress.index_y * render_progress.block_size

\* the four things a call of step may do
DidWrap == TlX > render_params.width
DidHalve == render_progress'.block_size # render_progress.block_size
DidSetDone == render_progress'.done /\ last_rect' = NoRect
DidPaint == last_rect' # NoRect
                /\ render_progress'.index_x = render_progress.index_x + 1

Count(b) == IF b THEN 1 ELSE 0

\* the block sizes from the initial one down to 0, by integer halving
RECURSIVE HalvingsFrom(_)
HalvingsFrom(b) == IF b = 0 THEN {0} ELSE {b} \cup HalvingsFrom(b \div 2)
Halvings == HalvingsFrom(InitialBlockSize)

\* the grey level of the sample taken for the pixel q alone
PixelSample(q, p) ==
    brightness(mandelbrot(screen_to_world(q[1], q[2], p), p.max_iter), p.max_iter)

\* C1: every call of step performs exactly one of: row wrap, resolution
\* halving, setting done, painting one block and incrementing index_x.
C1_ExactlyOneAction ==
    [][IsStepCall =>
          Count(DidWrap) + Count(DidHalve) + Count(DidSetDone) + Count(DidPaint) = 1]_vars

\* C2: when the drain is done, every pixel of the target holds the grey level
\* of the sample taken for that pixel alone (painted in the block_size = 1 pass).
C2_EveryPixelRefined ==
    render_progress.done =>
        \A q \in Pixels(render_params.width, render_params.height) :
            buffer.px[q] = PixelSample(q, render_params)

\* the texture a full drain leaves, started over a texture holding v
RECURSIVE DrainFrom(_, _, _)
DrainFrom(buf, p, rp) ==
    IF rp.done THEN buf
    ELSE LET s == step(buf, p, rp) IN DrainFrom(s.buffer, p, s.progress)
DrainImage(p, v) == DrainFrom(Texture(p.width, p.height, v), p, InitialProgress)

\* C3: two full drains for the same RenderParams end with identical buffers,
\* whatever the buffer held before each drain started.
C3_Determinism ==
    render_progress.done =>
        \A v \in Stale : buffer = DrainImage(render_params, v)

\* the number of step calls of a full drain of a width x height target:
\* per block size b, (height / b + 1) rows of (width / b + 1) calls, the
\* call that halves, and the calls lost or won where a pass starts
RECURSIVE CallsFrom(_, _, _)
CallsFrom(b, w, h) ==
    IF b = 0 THEN 0
    ELSE ((h \div b) + 1) * ((w \div b) + 1) + 2
         - (IF b = InitialBlockSize THEN 0 ELSE IF w >= 2 * b THEN 2 ELSE 1)
         + CallsFrom(b \div 2, w, h)
CallsToDone(w, h) == CallsFrom(InitialBlockSize, w, h)

\* C4: over the step calls of a drain block_size only ever halves, one halving
\* per call, through 128, 64, ..., 1, 0; at least one block of the target has
\* been painted at every size larger than the current one; done is set in the
\* call that makes block_size 0, and done holds exactly when block_size = 0.
C4_MonotonicRefinement ==
    /\ [](/\ render_progress.block_size \in Halvings
          /\ render_progress.done <=> render_progress.block_size = 0
          /\ \A b \in Halvings :
                 b > render_progress.block_size => b \in painted_sizes)
    /\ [][IsStepCall =>
            /\ \/ render_progress'.block_size = render_progress.block_size
               \/ /\ render_progress.block_size >= 1
                  /\ render_progress'.block_size = render_progress.block_size \div 2
            /\ (~render_progress.done /\ render_progress'.done) =>
                   (render_progress.block_size = 1 /\ render_progress'.block_size = 0)]_vars

\* C5: a step call made when done is already true changes neither the
\* progress nor any pixel.
C5_DoneAbsorbing ==
    [][(render_progress.done /\ IsStepCall) =>
           (render_progress' = render_progress /\ buffer' = buffer)]_vars

C5_Witness == render_progress.done /\ idle = MaxIdle

\* C6: the drain reaches done after exactly CallsToDone(width, height) step
\* calls, a number fixed by width, height and the initial block size alone.
C6_Completion ==
    /\ calls <= CallsToDone(render_params.width, render_params.height)
    /\ render_progress.done <=>
           calls = CallsToDone(render_params.width, render_params.height)

C6_Witness ==
    /\ render_progress.done
    /\ render_params.width = MaxW
    /\ render_params.height = 1
    /\ calls = CallsToDone(MaxW, 1)

-----------------------------------------------------------------------------
(* Claims about the frame loop *)

\* C7: in every frame the progress is reset to its initial values, and the
\* candidate becomes current, exactly when the candidate differs from the
\* current RenderParams; otherwise the progress of earlier frames is kept.
\* Nothing else in the loop resets the progress or replaces the parameters.
C7_ResetOnChange ==
    [][/\ (pc = "detect" /\ pc' = "render") =>
              IF render_params # new_render_params
              THEN /\ render_progress' = InitialProgress
                   /\ render_params' = new_render_params
              ELSE /\ render_progress' = render_progress
                   /\ render_params' = render_params
       /\ pc # "detect" =>
              /\ render_params' = render_params
              /\ render_progress' = InitialProgress =>
                     render_progress = InitialProgress]_vars

\* a reset has discarded the progress of a render that had painted
C7_Witness ==
    /\ pc = "render"
    /\ changes >= 1
    /\ last_rect # NoRect
    /\ render_progress = InitialProgress

\* C8: the loop never starts a step call when the time elapsed since
\* start_time has reached the 16 ms budget.
C8_DeadlineDiscipline ==
    (pc = "loop" /\ time_to_think > 0) => elapsed < Budget

\* C9: within a frame no step call is started once done is true, even when
\* the 16 ms budget has not yet been used.
C9_StopWhenDone ==
    (pc = "loop" /\ time_to_think > 0 /\ elapsed < Budget) => ~render_progress.done

-----------------------------------------------------------------------------
(* Claims about mandelbrot *)

\* the orbit z_0 = c, z_{k+1} = z_k^2 + c over pairs of integers
RECURSIVE Orbit(_, _)
Orbit(c, k) ==
    IF k = 0 THEN c
    ELSE LET z == Orbit(c, k - 1)
         IN  <<z[1] * z[1] - z[2] * z[2] + c[1], 2 * z[1] * z[2] + c[2]>>

Escaped(z) == z[1] * z[1] + z[2] * z[2] >= 4

\* C10: mandelbrot(z0, max_iter) is the smallest n < max_iter whose orbit
\* point has |z_n|^2 >= 4, or max_iter when there is none; it is max_iter
\* for z0 = 0 and 0 for z0 = 2 with max_iter >= 1.
C10_EscapeTime ==
    (pc = "eval" /\ eval.returned) =>
        LET c == <<eval.z_0.re.n, eval.z_0.im.n>>
        IN  /\ eval.n \in 0 .. eval.max_iter
            /\ \A k \in 0 .. eval.n - 1 : ~Escaped(Orbit(c, k))
            /\ eval.n < eval.max_iter => Escaped(Orbit(c, eval.n))
            /\ c = <<0, 0>> => eval.n = eval.max_iter
            /\ (c = <<2, 0>> /\ eval.max_iter >= 1) => eval.n = 0

\* a point that escapes after some iterations, below the cap
C10_Witness ==
    /\ pc = "eval"
    /\ eval.returned
    /\ 0 < eval.n
    /\ eval.n < eval.max_iter

-----------------------------------------------------------------------------
(* Claims about screen_to_world *)

\* the pixel (width / 2, height / 2), by integer division, has been mapped
CenterPixelMapped ==
    /\ pc = "map"
    /\ eval.returned
    /\ eval.x = render_params.width \div 2
    /\ eval.y = render_params.height \div 2

\* half a pixel, in world units: real_domain / (2 * width) on both axes
HalfPixel(p) == RDiv(p.real_domain, FromInt(2 * p.width))

\* C11: screen_to_world of the integer pixel (width / 2, height / 2) is
\* exactly center, for odd and even width and height.
C11_CenterRoundTrip ==
    CenterPixelMapped => eval.world = render_params.center

\* C11, amended: the result is exactly center on an axis whose dimension is
\* even; on an axis whose dimension is odd it lies half a pixel below it.
C11_CenterHalfPixel ==
    CenterPixelMapped =>
        /\ eval.world.re =
               IF render_params.width % 2 = 0 THEN render_params.center.re
               ELSE RSub(render_params.center.re, HalfPixel(render_params))
        /\ eval.world.im =
               IF render_params.height % 2 = 0 THEN render_params.center.im
               ELSE RSub(render_params.center.im, HalfPixel(render_params))

C11_Witness ==
    /\ CenterPixelMapped
    /\ render_params.width = 3
    /\ render_params.height = 2
    /\ eval.world.re # render_params.center.re
    /\ eval.world.im = render_params.center.im

-----------------------------------------------------------------------------
(* Claims about the iteration cap *)

IterInRange(p) == p.max_iter >= 1 /\ p.max_iter <= MaxIterClamp

\* C12: in every state of the frame loop, whatever halving and doubling key
\* events were handled, max_iter of the current and of the candidate
\* RenderParams lies in 1 .. 2^20; the candidate is small enough that doubling
\* it stays within 32 bits, and no step call divides by max_iter = 0.
C12_IterationBounds ==
    /\ IterInRange(render_params)
    /\ IterInRange(new_render_params)
    /\ new_render_params.max_iter <= HalfU32Max
    /\ (pc = "loop" => render_params.max_iter # 0)

C12_Witness ==
    /\ pc = "poll"
    /\ render_params.max_iter = MaxIterClamp
    /\ new_render_params.max_iter = MaxIterClamp \div 2

-----------------------------------------------------------------------------
(* Claims about the brightness *)

\* C13: for max_iter in 1 .. 2^20 and n in 0 .. max_iter the product 255 * n
\* fits 32 bits, the brightness is the quotient floor(255 * n / max_iter), it
\* lies in 0 .. 255 so the cast to 8 bits loses nothing, it is 255 exactly
\* when n = max_iter, and it does not decrease when n grows.
C13_BrightnessMapping ==
    (pc = "bright" /\ eval.returned) =>
        /\ eval.n <= MaxU32Over255
        /\ eval.brightness = (255 * eval.n) \div render_params.max_iter
        /\ eval.brightness >= 0 /\ eval.brightness <= 255
        /\ (eval.brightness = 255 <=> eval.n = render_params.max_iter)
        /\ (eval.n < render_params.max_iter =>
                eval.brightness <= brightness(eval.n + 1, render_params.max_iter))

C13_Witness ==
    /\ pc = "bright"
    /\ eval.returned
    /\ render_params.max_iter = MaxIterClamp
    /\ eval.n = MaxIterClamp - 1
    /\ eval.brightness = 254

-----------------------------------------------------------------------------
(* Claims about the export and about the order of detection and stepping *)

\* C14: whenever an export has been performed, the width and height handed to
\* the exporter are the dimensions the render target had at that moment,
\* whatever events preceded the export key in the same frame.
C14_ExportMatchesBuffer ==
    exported # NoExport =>
        /\ exported.width = exported.texture_w
        /\ exported.height = exported.texture_h

\* a step call issued by the frame loop
FrameStepCall == pc = "loop" /\ pc' = "loop"

\* C15: every step call of a frame comes after that frame's change detection:
\* it runs with the current RenderParams equal to the candidate, with width
\* and height equal to the dimensions of the buffer it paints into, and the
\* parameters only ever change together with a reset of the progress, at the
\* detection, so no call continues progress made under other parameters.
C15_DetectBeforeStep ==
    [][/\ FrameStepCall =>
              /\ render_params = new_render_params
              /\ render_params.width = buffer.w
              /\ render_params.height = buffer.h
              /\ render_params' = render_params
       /\ render_params' # render_params =>
              /\ pc = "detect"
              /\ render_progress' = InitialProgress
       /\ render_progress' # render_progress =>
              FrameStepCall \/ pc = "detect"]_vars

C15_Witness ==
    /\ pc = "loop"
    /\ time_to_think > 0
    /\ changes >= 1
    /\ render_progress.index_x >= 1

-----------------------------------------------------------------------------
(* Claims about the bookkeeping calls of step *)

\* C16: a step call that starts with index_x * block_size > width ends with
\* index_x = 0 and index_y one more than before.
C16_RowWrap ==
    [][(IsStepCall /\ DidWrap) =>
          /\ render_progress'.index_x = 0
          /\ render_progress'.index_y = render_progress.index_y + 1]_vars

\* C17: a step call that halves block_size to a value of at least 1 ends
\* with index_x = 0 and index_y = 0.
C17_HalvingRestart ==
    [][(IsStepCall /\ DidHalve /\ render_progress'.block_size >= 1) =>
          /\ render_progress'.index_x = 0
          /\ render_progress'.index_y = 0]_vars

\* C18: a step call that starts with index_x * block_size > width (a row
\* wrap) or with index_y * block_size > height (a halving) changes no pixel
\* of the target.
C18_BookkeepingInvisible ==
    [][(IsStepCall /\ (TlX > render_params.width \/ TlY > render_params.height)) =>
          buffer' = buffer]_vars

\* a row-wrap call has just painted its rectangle, right of the target
C18_Witness ==
    /\ pc = "drain"
    /\ last_rect # NoRect
    /\ last_rect.x > render_params.width
    /\ render_progress.index_y >= 1

I32Max == HalfU32Max
ClaimedMaxDim == I32Max - 256

\* C20: at every call boundary of step index_x * block_size <= width +
\* block_size and index_y * block_size <= height + block_size, with
\* block_size at most 128; so for width and height up to 2^31 - 257 the
\* products, the block-centre sums and the rectangle origin stay below 2^31.
C20_IndexBounds ==
    /\ TlX <= render_params.width + render_progress.block_size
    /\ TlY <= render_params.height + render_progress.block_size
    /\ render_progress.block_size <= InitialBlockSize
    /\ ClaimedMaxDim + InitialBlockSize + InitialBlockSize \div 2 <= I32Max

C20_Witness ==
    /\ pc = "drain"
    /\ ~render_progress.done
    /\ render_progress.block_size >= 2
    /\ render_progress.index_y >= 1
    /\ TlX = render_params.width + render_progress.block_size

-----------------------------------------------------------------------------
(* Claims about completion in the frame loop *)

\* the frame has reached its stepping loop, render not done, with no time left:
\* it will issue no step call
Starved == pc = "render" /\ ~render_progress.done /\ TimeLeft(elapsed) <= 0

\* the program has neither quit nor panicked
Running == pc # "exit" /\ pc # "panic"

\* the candidate examined by the change detection equals the current value
StableAtDetect == pc = "detect" => render_params = new_render_params

\* C19: if the program keeps running, from some frame on the candidate never
\* differs from the current parameters, and every frame whose render is not
\* done issues at least one step call, then done is eventually reached and
\* stays true from then on.
C19_EventualCompletion ==
    ([]Running /\ <>[]StableAtDetect /\ <>[]~Starved)
        => <>[]render_progress.done

\* a later frame finds the render done and sleeps
C19_Witness ==
    /\ pc = "sleep"
    /\ render_progress.done
    /\ changes >= 1

====
